---- MODULE Spec2Model ----
(***************************************************************************)
(* Model of the secure fog simulation (secure_fog_simulation.py): the      *)
(* topology graph, the AI_Monitor classifier, the MovementManager and      *)
(* RekeyingManager monitors, the BroadcastShortestPath router and the      *)
(* event log, with the driver that fires them.                             *)
(*                                                                         *)
(* The specifications share the variables:                                 *)
(*   Spec       the deployment built by run_simulation, monitors and the   *)
(*              message source fired on their distributions;               *)
(*   SpecRun    the same deployment, the monitors and the broadcast        *)
(*              invoked in any order;                                      *)
(*   SpecSteps  SpecRun with MovementManager.__call__ taken one statement  *)
(*              at a time;                                                 *)
(*   SpecLog    SpecRun together with the smaller topologies on which the  *)
(*              monitor returns early;                                     *)
(*   SpecAI     AI_Monitor.check_node_movement called directly;            *)
(*   SpecTopo   MovementManager and the router on any small topology;      *)
(*   SpecDup    SpecTopo with mobile nodes linked to two clusters;         *)
(*   SpecInject MovementManager invoked at chosen times on the             *)
(*              one-leader, three-cluster topology;                        *)
(*   SpecRekey  SpecInject with the rekeying monitor.                      *)
(***************************************************************************)
EXTENDS Integers, Sequences, FiniteSets

VARIABLES
    nodes,               \* sim.topology.G: node ids in insertion order
    ntype,               \* sim.topology.G: node id -> 'type' attribute
    edges,               \* sim.topology.G: set of undirected edges {a, b}
    edge_order,          \* sim.topology.G: the edges in the order add_edge
                         \* created them (the order G.neighbors follows)
    edges0,              \* history: the edge set when the run was set up
    mobile_nodes,        \* MovementManager.mobile_nodes (list)
    cluster_nodes,       \* MovementManager.cluster_nodes (list)
    initialized,         \* MovementManager.initialized
    node_locations,      \* MovementManager.node_locations (dict)
    move_counts,         \* AI_Monitor.move_counts (dict node -> list of times)
    simulation_log,      \* the global simulation_log list
    invalid_cache_value, \* routing.invalid_cache_value
    now,                 \* sim.env.now
    nextMove,            \* time the MovementManager monitor fires next
    nextRekey,           \* time the RekeyingManager monitor fires next
    nextSend,            \* time the AreaLeader source sends next
    invocations,         \* history: number of monitor/classifier invocations
    calls,               \* history: every check_node_movement call and verdict
    lastOp,              \* history: the operation that produced this state
    args,                \* history: the arguments of the last router call
    ret,                 \* value returned by the last operation
    pc,                  \* MovementManager.__call__: the line reached
    moving               \* MovementManager.__call__: its locals in flight

vars == <<nodes, ntype, edges, edge_order, edges0, mobile_nodes, cluster_nodes,
          initialized, node_locations, move_counts, simulation_log,
          invalid_cache_value, now, nextMove, nextRekey, nextSend,
          invocations, calls, lastOp, args, ret, pc, moving>>

topoVars == <<nodes, ntype, edges, edge_order, edges0>>
mgrVars == <<mobile_nodes, cluster_nodes, initialized, node_locations>>
timerVars == <<nextMove, nextRekey, nextSend>>
stepVars == <<pc, moving>>

\* Python's None (dict.get default, a function without a return value).
None == "None"

----------------------------------------------------------------------------
(* Bounds of the model. *)

\* SpecAI: number of direct classifier calls.
MaxCalls == 5
\* Spec: number of MovementManager invocations the driver fires.
MaxMoves == 1
\* SpecTopo: number of MovementManager invocations.
MaxTopoMoves == 2
\* SpecInject: number of injected MovementManager invocations.
MaxInject == 5
\* Monitor invocations taken statement by statement in SpecSteps.
MaxStepMoves == 2
MaxStepRekeys == 1
\* SpecRekey: number of MovementManager and of RekeyingManager invocations.
MaxRekeyMoves == 1
MaxRekeys == 2
\* SpecRun: number of MovementManager and of RekeyingManager invocations.
MaxRunMoves == 2
MaxRunRekeys == 1
\* SpecLog: number of MovementManager and of RekeyingManager invocations.
MaxLogMoves == 2
MaxLogRekeys == 1
\* Number of distinct seeds random.choices is taken to return.
MaxSeeds == 2
\* SpecRun, SpecLog, SpecSteps: number of distinct times between two
\* invocations.
MaxDeltas == 1

----------------------------------------------------------------------------
(* AI_Monitor *)

suspicion_threshold == 3
Window == 300

\* self.move_counts[node_id] after the "not in" test created the entry.
HistoryOf(mc, n) == IF n \in DOMAIN mc THEN mc[n] ELSE <<>>

\* [t for t in self.move_counts[node_id] if time - t < 300]
Prune_inclusive(hist, time) == SelectSeq(hist, LAMBDA t : time - t <= Window)
Prune(hist, time) == SelectSeq(hist, LAMBDA t : time - t < Window)

\* len(self.move_counts[node_id]) > self.suspicion_threshold
Verdict_atThreshold(hist) ==
    IF Len(hist) >= suspicion_threshold THEN "ATTACKER" ELSE "NORMAL"
Verdict(hist) ==
    IF Len(hist) > suspicion_threshold THEN "ATTACKER" ELSE "NORMAL"

\* check_node_movement(node_id, time): the new move_counts and the verdict.
check_node_movement(mc, n, time) ==
    LET kept == Prune(Append(HistoryOf(mc, n), time), time)
    IN  [counts |-> [k \in DOMAIN mc \cup {n} |-> IF k = n THEN kept ELSE mc[k]],
         status |-> Verdict(kept)]

\* One recorded classifier call.
CallRecord(n, time, status) == [node |-> n, time |-> time, status |-> status]

----------------------------------------------------------------------------
(* Topology graph (networkx Graph held by yafs Topology) *)

LeaderName == "area_leader"
ClusterNames == <<"cluster_1", "cluster_2", "cluster_3">>
\* mobile_node_names of run_simulation.
MobileNames == <<"iot_0", "iot_1", "iot_2", "iot_3", "iot_4">>
\* The mobile nodes of the topologies handed to the monitor directly
\* (SpecTopo, SpecInject, SpecDup): up to two of them.
TopoMobiles == SubSeq(MobileNames, 1, 2)

Range(s) == {s[i] : i \in DOMAIN s}

\* G.neighbors(n)
Neighbors(E, n) == {m \in UNION E : m # n /\ {n, m} \in E}

\* The neighbours of n whose 'type' is CLUSTER.
ClusterNeighbors(E, n) == {c \in Neighbors(E, n) : ntype[c] = "CLUSTER"}

\* The topology run_simulation builds around a set of clusters and mobile
\* nodes: one leader linked to every cluster, each mobile node linked to
\* its start cluster (None: not linked).
BuiltNodes(cl, mob) == <<LeaderName>> \o cl \o mob
BuiltTypes(cl, mob) ==
    [n \in Range(BuiltNodes(cl, mob)) |->
        IF n = LeaderName THEN "LEADER"
        ELSE IF n \in Range(cl) THEN "CLUSTER" ELSE "MOBILE"]
\* The add_edge calls of that set-up, in order: the leader's edge of each
\* cluster, then the edge of each linked mobile node.
BuiltOrder(cl, mob, start) ==
    LET linked == SelectSeq(mob, LAMBDA m : start[m] # None)
    IN  [i \in 1..Len(cl) |-> {LeaderName, cl[i]}]
            \o [i \in 1..Len(linked) |-> {linked[i], start[linked[i]]}]
BuiltEdges(cl, mob, start) == Range(BuiltOrder(cl, mob, start))

\* {"time": 0, "type": "INITIAL", "node": name, "location": start_cluster}
InitialRecord(name, start_cluster) ==
    [time |-> 0, type |-> "INITIAL", node |-> name, location |-> start_cluster]

----------------------------------------------------------------------------
(* MovementManager *)

\* initialize: the MOBILE nodes, appended in G.nodes order.
DiscoverMobile_notLeader == SelectSeq(nodes, LAMBDA n : ntype[n] # "LEADER")
DiscoverMobile == SelectSeq(nodes, LAMBDA n : ntype[n] = "MOBILE")
\* initialize: the CLUSTER nodes (the elif branch), in G.nodes order.
DiscoverCluster ==
    SelectSeq(nodes, LAMBDA n : ntype[n] # "MOBILE" /\ ntype[n] = "CLUSTER")

\* simulation_log.append(record)
LogAppend_front(log, record) == <<record>> \o log
LogAppend(log, record) == Append(log, record)

\* The first CLUSTER node G.neighbors(m) yields: the neighbours of a node
\* come in the order their edges were added.
FirstNeighbor(order, m) ==
    LET links == SelectSeq(order,
                    LAMBDA e : m \in e /\ \E c \in e \ {m} :
                                               ntype[c] = "CLUSTER")
    IN  CHOOSE c \in links[1] : c # m

\* initialize: node_locations seeded with the first CLUSTER neighbour of
\* each mobile node that has one.
SeedLocations(locs) ==
    LET found == {m \in Range(DiscoverMobile) : ClusterNeighbors(edges, m) # {}}
    IN  [m \in DOMAIN locs \cup found |->
            IF m \in found THEN FirstNeighbor(edge_order, m)
            ELSE locs[m]]

\* self.node_locations.get(node_to_move)
LocationGet(locs, n) == IF n \in DOMAIN locs THEN locs[n] ELSE None

\* [c for c in self.cluster_nodes if c != current_location_id]
PossibleNewLocations_any(clusters, cur) == clusters
PossibleNewLocations_first(clusters, cur) ==
    SelectSeq(clusters, LAMBDA c : c = clusters[1])
PossibleNewLocations(clusters, cur) == SelectSeq(clusters, LAMBDA c : c # cur)

\* The MOVE record appended to simulation_log.
MoveRecord_zeroTime(time, node, from, to, status) ==
    [time |-> 0, type |-> "MOVE", node |-> node, from |-> from,
     to |-> to, status |-> status]
MoveRecord_swapped(time, node, from, to, status) ==
    [time |-> time, type |-> "MOVE", node |-> node,
     from |-> to, to |-> from, status |-> status]
MoveRecord(time, node, from, to, status) ==
    [time |-> time, type |-> "MOVE", node |-> node, from |-> from,
     to |-> to, status |-> status]

\* remove_edge (guarded by the truthiness of the location and has_edge),
\* then add_edge.
EdgesAfterMove_dropCluster(E, node, cur, new) ==
    {e \in E : cur \notin e} \cup {{node, new}}
EdgesAfterMove_keepOld(E, node, cur, new) == E \cup {{node, new}}
\* if current_location_id and G.has_edge(...): G.remove_edge(...)
RemoveOldEdge_skip(E, node, cur) == E
RemoveOldEdge(E, node, cur) ==
    IF cur # None /\ {node, cur} \in E THEN E \ {{node, cur}} ELSE E
\* G.add_edge(node, new, BW=5, PR=2): networkx adds the edge, or updates the
\* attributes of the edge when the graph already has it; it never raises.
AddNewEdge(E, node, new) == E \cup {{node, new}}
EdgesAfterMove(E, node, cur, new) ==
    AddNewEdge(RemoveOldEdge(E, node, cur), node, new)

\* The same two statements on the order of the edges: remove_edge deletes
\* the edge, add_edge appends a new edge and leaves an existing one where
\* it is.
OrderAfterRemove(order, node, cur) ==
    IF cur # None /\ {node, cur} \in Range(order)
    THEN SelectSeq(order, LAMBDA e : e # {node, cur})
    ELSE order
OrderAfterAdd(order, node, new) ==
    IF {node, new} \in Range(order) THEN order
    ELSE Append(order, {node, new})

\* self.node_locations[node_to_move] = new_location_id
LocationsAfterMove_stale(locs, node, new) == locs
LocationsAfterMove_all(locs, node, new) ==
    [m \in DOMAIN locs \cup {node} |-> new]
LocationsAfterMove(locs, node, new) ==
    [m \in DOMAIN locs \cup {node} |-> IF m = node THEN new ELSE locs[m]]

\* routing.invalid_cache_value = True
CacheAfterMove_unset(flag) == flag
CacheAfterMove(flag) == TRUE

\* if not self.initialized
NeedsInit_always == TRUE
NeedsInit == ~initialized

\* The invocation returns without moving: only initialize's effects remain.
ManagerNoop(loc) ==
    /\ node_locations' = loc
    /\ lastOp' = "noop"
    /\ UNCHANGED <<edges, edge_order, move_counts, calls, simulation_log,
                   invalid_cache_value>>

\* The invocation moves `node` from `cur` to `new` at time tm.
ManagerMove(loc, node, cur, new, tm) ==
    LET r == check_node_movement(move_counts, node, tm)
    IN  /\ move_counts' = r.counts
        /\ calls' = Append(calls, CallRecord(node, tm, r.status))
        /\ simulation_log' =
               LogAppend(simulation_log,
                         MoveRecord(tm, node, cur, new, r.status))
        /\ edges' = EdgesAfterMove(edges, node, cur, new)
        /\ edge_order' =
               OrderAfterAdd(OrderAfterRemove(edge_order, node, cur), node, new)
        /\ node_locations' = LocationsAfterMove(loc, node, new)
        /\ invalid_cache_value' = CacheAfterMove(invalid_cache_value)
        /\ lastOp' = "move"

\* MovementManager.__call__(sim, routing) with sim.env.now = tm.
MovementManager(tm) ==
    LET mob == IF NeedsInit THEN mobile_nodes \o DiscoverMobile
               ELSE mobile_nodes
        clu == IF NeedsInit THEN cluster_nodes \o DiscoverCluster
               ELSE cluster_nodes
        loc == IF NeedsInit THEN SeedLocations(node_locations)
               ELSE node_locations
    IN  /\ now' = tm
        /\ invocations' = invocations + 1
        /\ initialized' = TRUE
        /\ mobile_nodes' = mob
        /\ cluster_nodes' = clu
        /\ args' = None
        /\ ret' = None
        /\ UNCHANGED <<nodes, ntype, edges0, stepVars>>
        /\ IF mob = <<>>
           THEN ManagerNoop(loc)
           ELSE \E i \in 1..Len(mob) :
                  LET node == mob[i]
                      cur == LocationGet(loc, node)
                      poss == PossibleNewLocations(clu, cur)
                  IN  IF poss = <<>>
                      THEN ManagerNoop(loc)
                      ELSE \E j \in 1..Len(poss) :
                             ManagerMove(loc, node, cur, poss[j], tm)

----------------------------------------------------------------------------
(* RekeyingManager *)

\* string.ascii_letters + string.digits
alphabet == "abcdefghijklmnopqrstuvwxyzABCDEFGHIJKLMNOPQRSTUVWXYZ0123456789"
\* The characters of a string, in order.
Letters(s) == [i \in 1..Len(s) |-> SubSeq(s, i, i)]

\* ''.join(picks)
RECURSIVE join(_)
join(picks) == IF picks = <<>> THEN "" ELSE Head(picks) \o join(Tail(picks))

\* generate_seed(length=8): random.choices(alphabet, k=length) returns the
\* list picks of `length` characters of the alphabet, which are joined.
seed_length == 8
generate_seed(picks) == join(picks)

\* Every string generate_seed() can return.
Seeds ==
    {s \in STRING : /\ Len(s) = seed_length
                    /\ \A c \in Range(Letters(s)) :
                          c \in Range(Letters(alphabet))}

\* Seeds returned by generate_seed() in runs of the program.
SeedList == <<"FlO01XS8", "zyzKdOAR", "0UAqFzWs", "Xo0mRmPL">>
\* The outcomes of random.choices the rekeying steps draw from: the picks
\* of the first MaxSeeds seeds of SeedList.
SeedChoices == {Letters(SeedList[i]) : i \in 1..MaxSeeds}

\* seed.encode(): the byte of each character (letters and digits).
ord(c) ==
    LET i == CHOOSE j \in 1..Len(alphabet) : SubSeq(alphabet, j, j) = c
    IN  IF i <= 26 THEN 96 + i
        ELSE IF i <= 52 THEN 64 + (i - 26)
        ELSE 48 + (i - 53)
encode(s) == [i \in 1..Len(s) |-> ord(SubSeq(s, i, i))]

\* SHA-256 on 32-bit words kept as <<high half, low half>>.
Half == 2^16
sha256_k ==
    << <<17034, 12184>>, <<28983, 17553>>, <<46528, 64463>>, <<59829, 56229>>,
       <<14678, 49755>>, <<23025, 4593>>, <<37439, 33444>>, <<43804, 24277>>,
       <<55303, 43672>>, <<4739, 23297>>, <<9265, 34238>>, <<21772, 32195>>,
       <<29374, 23924>>, <<32990, 45566>>, <<39900, 1703>>, <<49563, 61812>>,
       <<58523, 27073>>, <<61374, 18310>>, <<4033, 40390>>, <<9228, 41420>>,
       <<11753, 11375>>, <<19060, 33962>>, <<23728, 43484>>, <<30457, 35034>>,
       <<38974, 20818>>, <<43057, 50797>>, <<45059, 10184>>, <<48985, 32711>>,
       <<50912, 3059>>, <<54695, 37191>>, <<1738, 25425>>, <<5161, 10599>>,
       <<10167, 2693>>, <<11803, 8504>>, <<19756, 28156>>, <<21304, 3347>>,
       <<25866, 29524>>, <<30314, 2747>>, <<33218, 51502>>, <<37490, 11397>>,
       <<41663, 59553>>, <<43034, 26187>>, <<49739, 35696>>, <<51052, 20899>>,
       <<53650, 59417>>, <<54937, 1572>>, <<62478, 13701>>, <<4202, 41072>>,
       <<6564, 49430>>, <<7735, 27656>>, <<10056, 30540>>, <<13488, 48309>>,
       <<14620, 3251>>, <<20184, 43594>>, <<23452, 51791>>, <<26670, 28659>>,
       <<29839, 33518>>, <<30885, 25455>>, <<33992, 30740>>, <<36039, 520>>,
       <<37054, 65530>>, <<42064, 27883>>, <<48889, 41975>>, <<50801, 30962>> >>

sha256_h0 ==
    << <<27145, 58983>>, <<47975, 44677>>, <<15470, 62322>>, <<42319, 62778>>,
       <<20750, 21119>>, <<39685, 26764>>, <<8067, 55723>>, <<23520, 52505>> >>

RECURSIVE Xor16(_, _, _, _)
Xor16(a, b, c, n) ==
    IF n = 0 THEN 0
    ELSE ((a + b + c) % 2) + 2 * Xor16(a \div 2, b \div 2, c \div 2, n - 1)
RECURSIVE Ch16(_, _, _, _)
Ch16(e, f, g, n) ==
    IF n = 0 THEN 0
    ELSE (IF e % 2 = 1 THEN f % 2 ELSE g % 2)
            + 2 * Ch16(e \div 2, f \div 2, g \div 2, n - 1)
RECURSIVE Maj16(_, _, _, _)
Maj16(a, b, c, n) ==
    IF n = 0 THEN 0
    ELSE (((a % 2) + (b % 2) + (c % 2)) \div 2)
            + 2 * Maj16(a \div 2, b \div 2, c \div 2, n - 1)

Xor3(x, y, z) == <<Xor16(x[1], y[1], z[1], 16), Xor16(x[2], y[2], z[2], 16)>>
Ch(e, f, g) == <<Ch16(e[1], f[1], g[1], 16), Ch16(e[2], f[2], g[2], 16)>>
Maj(a, b, c) == <<Maj16(a[1], b[1], c[1], 16), Maj16(a[2], b[2], c[2], 16)>>
Add(x, y) ==
    <<(x[1] + y[1] + ((x[2] + y[2]) \div Half)) % Half, (x[2] + y[2]) % Half>>
\* Rotation and shift to the right by n, 0 < n < 32, n # 16.
Rotr(x, n) ==
    LET h == IF n < 16 THEN x[1] ELSE x[2]
        l == IF n < 16 THEN x[2] ELSE x[1]
        m == n % 16
    IN  <<(h \div 2^m) + (l % 2^m) * 2^(16 - m),
          (l \div 2^m) + (h % 2^m) * 2^(16 - m)>>
Shr(x, n) ==
    <<x[1] \div 2^n, (x[2] \div 2^n) + (x[1] % 2^n) * 2^(16 - n)>>

\* The padded block of a message of at most 55 bytes, as 16 words.
Block(bytes) ==
    LET byte(i) == IF i <= Len(bytes) THEN bytes[i]
                   ELSE IF i = Len(bytes) + 1 THEN 128
                   ELSE IF i = 63 THEN (8 * Len(bytes)) \div 256
                   ELSE IF i = 64 THEN (8 * Len(bytes)) % 256
                   ELSE 0
    IN  [t \in 1..16 |-> <<256 * byte(4 * t - 3) + byte(4 * t - 2),
                           256 * byte(4 * t - 1) + byte(4 * t)>>]

RECURSIVE Schedule(_)
Schedule(w) ==
    IF Len(w) = 64 THEN w
    ELSE LET t == Len(w) + 1
             s0 == Xor3(Rotr(w[t - 15], 7), Rotr(w[t - 15], 18), Shr(w[t - 15], 3))
             s1 == Xor3(Rotr(w[t - 2], 17), Rotr(w[t - 2], 19), Shr(w[t - 2], 10))
         IN  Schedule(Append(w, Add(Add(w[t - 16], s0), Add(w[t - 7], s1))))

Round(v, w, k) ==
    LET S1 == Xor3(Rotr(v[5], 6), Rotr(v[5], 11), Rotr(v[5], 25))
        t1 == Add(Add(Add(v[8], S1), Add(Ch(v[5], v[6], v[7]), k)), w)
        S0 == Xor3(Rotr(v[1], 2), Rotr(v[1], 13), Rotr(v[1], 22))
        t2 == Add(S0, Maj(v[1], v[2], v[3]))
    IN  <<Add(t1, t2), v[1], v[2], v[3], Add(v[4], t1), v[5], v[6], v[7]>>

\* The working variables a..h after each of the 64 rounds.
RECURSIVE Rounds(_, _)
Rounds(vs, w) ==
    IF Len(vs) = 65 THEN vs
    ELSE Rounds(Append(vs, Round(vs[Len(vs)], w[Len(vs)], sha256_k[Len(vs)])), w)

sha256(bytes) ==
    LET v == Rounds(<<sha256_h0>>, Schedule(Block(bytes)))[65]
    IN  [i \in 1..8 |-> Add(sha256_h0[i], v[i])]

RECURSIVE hex(_, _)
hex(n, digits) ==
    IF digits = 0 THEN ""
    ELSE hex(n \div 16, digits - 1)
            \o SubSeq("0123456789abcdef", (n % 16) + 1, (n % 16) + 1)

\* hexdigest()[:8]: the first word of the hash in hexadecimal.
hexdigest_prefix(seed) ==
    LET first == sha256(encode(seed))[1]
    IN  hex(first[1], 4) \o hex(first[2], 4)

\* The keys of the seeds the rekeying steps draw, computed once.
DrawnKeys ==
    {<<generate_seed(p), hexdigest_prefix(generate_seed(p))>> :
        p \in SeedChoices}

\* hashlib.sha256(seed.encode()).hexdigest()[:8]
derive_key(seed) ==
    IF \E p \in DrawnKeys : p[1] = seed
    THEN (CHOOSE p \in DrawnKeys : p[1] = seed)[2]
    ELSE hexdigest_prefix(seed)

\* The REKEY record appended to simulation_log.
RekeyRecord_noKey(time, seed) ==
    [time |-> time, type |-> "REKEY", seed |-> seed, key |-> seed]
RekeyRecord(time, seed) ==
    [time |-> time, type |-> "REKEY", seed |-> seed, key |-> derive_key(seed)]

\* RekeyingManager.__call__(sim) with sim.env.now = tm.
RekeyingManager(tm) ==
    /\ now' = tm
    /\ \E picks \in SeedChoices :
          LET seed == generate_seed(picks)
          IN  simulation_log' =
                 LogAppend(simulation_log, RekeyRecord(tm, seed))
    /\ lastOp' = "rekey"
    /\ args' = None
    /\ ret' = None
    /\ UNCHANGED <<topoVars, mgrVars, move_counts, calls,
                   invalid_cache_value, invocations, stepVars>>

----------------------------------------------------------------------------
(* BroadcastShortestPath *)

\* The graph the router searches: sim.topology.G at the time of the call.
RoutingEdges_stale == edges0
RoutingEdges == edges

\* Breadth-first search: `paths` are all the shortest paths from the source
\* to the nodes of the current frontier, `seen` the nodes reached so far.
RECURSIVE Search(_, _, _, _)
Search(E, paths, seen, target) ==
    LET hits == {p \in paths : p[Len(p)] = target}
        next == UNION {{Append(p, m) : m \in Neighbors(E, p[Len(p)]) \ seen}
                         : p \in paths}
    IN  IF hits # {} THEN hits
        ELSE IF next = {} THEN {}
        ELSE Search(E, next, seen \cup {p[Len(p)] : p \in next}, target)

\* nx.shortest_path(G, source, target): the shortest paths it may return
\* (which one of several is networkx's choice); empty for NetworkXNoPath.
ShortestPaths(E, source, target) == Search(E, {<<source>>}, {source}, target)

\* get_path: one path per destination instance with a path, in list order.
RECURSIVE get_path_keepAll(_, _, _, _)
get_path_keepAll(E, src, alloc_DES, DES_dst_list) ==
    IF DES_dst_list = <<>> THEN {[paths |-> <<>>, dst_idDES |-> <<>>]}
    ELSE LET des == Head(DES_dst_list)
             sp == ShortestPaths(E, src, alloc_DES[des])
             rest == get_path_keepAll(E, src, alloc_DES, Tail(DES_dst_list))
         IN  IF sp = {}
             THEN {[paths |-> r.paths, dst_idDES |-> <<des>> \o r.dst_idDES]
                      : r \in rest}
             ELSE {[paths |-> <<p>> \o r.paths,
                    dst_idDES |-> <<des>> \o r.dst_idDES]
                      : p \in sp, r \in rest}

RECURSIVE get_path_stopAtFirst(_, _, _, _)
get_path_stopAtFirst(E, src, alloc_DES, DES_dst_list) ==
    IF DES_dst_list = <<>> THEN {[paths |-> <<>>, dst_idDES |-> <<>>]}
    ELSE LET des == Head(DES_dst_list)
             sp == ShortestPaths(E, src, alloc_DES[des])
             rest == get_path_stopAtFirst(E, src, alloc_DES, Tail(DES_dst_list))
         IN  IF sp = {}
             THEN {[paths |-> <<>>, dst_idDES |-> <<>>]}
             ELSE {[paths |-> <<p>> \o r.paths,
                    dst_idDES |-> <<des>> \o r.dst_idDES]
                      : p \in sp, r \in rest}

RECURSIVE get_path(_, _, _, _)
get_path(E, src, alloc_DES, DES_dst_list) ==
    IF DES_dst_list = <<>> THEN {[paths |-> <<>>, dst_idDES |-> <<>>]}
    ELSE LET des == Head(DES_dst_list)
             sp == ShortestPaths(E, src, alloc_DES[des])
             rest == get_path(E, src, alloc_DES, Tail(DES_dst_list))
         IN  IF sp = {}
             THEN rest
             ELSE {[paths |-> <<p>> \o r.paths,
                    dst_idDES |-> <<des>> \o r.dst_idDES]
                      : p \in sp, r \in rest}

\* One router call: routing.get_path(sim, app, message, src, alloc_DES, ...).
Route(src, alloc_DES, DES_dst_list) ==
    /\ ret' \in get_path(RoutingEdges, src, alloc_DES, DES_dst_list)
    /\ args' = [src |-> src, alloc_DES |-> alloc_DES,
                DES_dst_list |-> DES_dst_list]
    /\ lastOp' = "route"
    /\ UNCHANGED <<topoVars, mgrVars, move_counts, calls, simulation_log,
                   invalid_cache_value, invocations, stepVars>>

----------------------------------------------------------------------------
(* Spec: the run built and driven by run_simulation *)

simulation_duration == 1000
\* uniformDistribution(min=30, max=60): the periods it can return.
MoveDist == 30..60
\* deterministic_distribution(time=120) of the RekeyingManager monitor.
RekeyDist == 120
\* deterministic_distribution(time=120) of the AreaLeader message source.
SendDist == 120

\* JSONPlacement: instance 0 is AreaLeader on area_leader, instances 1..3
\* are ClusterLeader on cluster_1 .. cluster_3.
PlacementAlloc ==
    [d \in 0..Len(ClusterNames) |->
        IF d = 0 THEN LeaderName ELSE ClusterNames[d]]
\* alloc_module["SecureApp"]["ClusterLeader"]
PlacementDst == [i \in 1..Len(ClusterNames) |-> i]

\* The state run_simulation sets up before sim.run: the topology, the
\* INITIAL records and the fresh monitors. start: mobile node -> cluster.
SetUpGraph(cl, mob, order, log) ==
    /\ nodes = BuiltNodes(cl, mob)
    /\ ntype = BuiltTypes(cl, mob)
    /\ edges = Range(order)
    /\ edge_order = order
    /\ edges0 = edges
    /\ mobile_nodes = <<>>
    /\ cluster_nodes = <<>>
    /\ initialized = FALSE
    /\ node_locations = <<>>
    /\ move_counts = <<>>
    /\ simulation_log = log
    /\ invalid_cache_value = FALSE
    /\ now = 0
    /\ invocations = 0
    /\ calls = <<>>
    /\ lastOp = "init"
    /\ args = None
    /\ ret = None
    /\ pc = "idle"
    /\ moving = None

SetUp(cl, mob, start, log) ==
    SetUpGraph(cl, mob, BuiltOrder(cl, mob, start), log)

\* The first period of each process, drawn when sim.run starts it.
FirstPeriods ==
    /\ nextMove \in MoveDist
    /\ nextRekey = RekeyDist
    /\ nextSend = SendDist

\* run_simulation after the leader and the clusters are added and linked,
\* before the loop that adds the mobile nodes.
Init ==
    /\ SetUp(ClusterNames, <<>>, <<>>, <<>>)
    /\ FirstPeriods

\* Every mobile node has been added: sim.run can start.
SetupDone == Len(nodes) = 1 + Len(ClusterNames) + Len(MobileNames)

\* One round of the loop over mobile_node_names: the node is added, linked
\* to a random start cluster, and its INITIAL record is logged.
SetupMobile ==
    /\ ~SetupDone
    /\ LET name == MobileNames[Len(nodes) - Len(ClusterNames)]
       IN  \E start_cluster \in Range(ClusterNames) :
              /\ nodes' = Append(nodes, name)
              /\ ntype' = [n \in DOMAIN ntype \cup {name} |->
                              IF n = name THEN "MOBILE" ELSE ntype[n]]
              /\ edges' = edges \cup {{name, start_cluster}}
              /\ edge_order' = Append(edge_order, {name, start_cluster})
              /\ edges0' = edges'
              /\ simulation_log' =
                     LogAppend(simulation_log,
                               InitialRecord(name, start_cluster))
    /\ lastOp' = "setup"
    /\ UNCHANGED <<mgrVars, move_counts, calls, invalid_cache_value, now,
                   invocations, args, ret, timerVars, stepVars>>

\* The driver resumes a process only when the callback it called last has
\* returned: a monitor is a plain function call inside its process.
MonitorIdle == pc = "idle"

\* The driver takes the process whose time comes first (processes due at
\* the same time in either order).
IsNext(t, a, b) == t <= a /\ t <= b

\* The MovementManager monitor fires and draws its next period from
\* MoveDist. The run is followed for `cap` invocations of the monitor and
\* stops when the next one comes due.
MoveProcess(cap) ==
    /\ MonitorIdle
    /\ invocations < cap
    /\ nextMove < simulation_duration
    /\ IsNext(nextMove, nextRekey, nextSend)
    /\ MovementManager(nextMove)
    /\ \E d \in MoveDist : nextMove' = nextMove + d
    /\ UNCHANGED <<nextRekey, nextSend>>

\* The RekeyingManager monitor fires.
RekeyProcess ==
    /\ MonitorIdle
    /\ nextRekey < simulation_duration
    /\ IsNext(nextRekey, nextMove, nextSend)
    /\ RekeyingManager(nextRekey)
    /\ nextRekey' = nextRekey + RekeyDist
    /\ UNCHANGED <<nextMove, nextSend>>

\* The AreaLeader source sends RekeyingMessage: the router is asked for the
\* paths to every ClusterLeader instance.
SendProcess ==
    /\ MonitorIdle
    /\ nextSend < simulation_duration
    /\ IsNext(nextSend, nextMove, nextRekey)
    /\ now' = nextSend
    /\ Route(LeaderName, PlacementAlloc, PlacementDst)
    /\ nextSend' = nextSend + SendDist
    /\ UNCHANGED <<nextMove, nextRekey>>

\* sim.run: the three processes run once the set-up loop is over.
DriverMove == SetupDone /\ MoveProcess(MaxMoves)
DriverRekey == SetupDone /\ RekeyProcess
DriverSend == SetupDone /\ SendProcess

Next == SetupMobile \/ DriverMove \/ DriverRekey \/ DriverSend

Spec == Init /\ [][Next]_vars

-----------------------------------------------------------------------------
(* SpecAI: the classifier called directly *)

AINodes == {"iot_0", "iot_1"}
\* Time between two calls; 0 keeps the time, 300 is the window's length.
AIDeltas == {0, 10, 290, 300}

InitAI ==
    /\ SetUp(<<>>, <<>>, <<>>, <<>>)
    /\ nextMove = 0 /\ nextRekey = 0 /\ nextSend = 0

\* ai_monitor.check_node_movement(n, now + d)
AICheck ==
    /\ invocations < MaxCalls
    /\ \E n \in AINodes, d \in AIDeltas :
          LET r == check_node_movement(move_counts, n, now + d)
          IN  /\ now' = now + d
              /\ move_counts' = r.counts
              /\ calls' = Append(calls, CallRecord(n, now + d, r.status))
              /\ ret' = r.status
    /\ invocations' = invocations + 1
    /\ lastOp' = "check"
    /\ args' = None
    /\ UNCHANGED <<topoVars, mgrVars, simulation_log, invalid_cache_value,
                   timerVars, stepVars>>

NextAI == AICheck

SpecAI == InitAI /\ [][NextAI]_vars

----------------------------------------------------------------------------
(* SpecTopo and SpecInject: the monitor and the router on a given topology *)

\* Time between two injected invocations.
InjectDeltas == {10, 290}

Prefixes(s) == {SubSeq(s, 1, k) : k \in 0..Len(s)}

\* Any leader-and-clusters topology with up to three clusters and two
\* mobile nodes, each mobile node linked to one cluster or to none.
InitTopo ==
    /\ \E cl \in Prefixes(ClusterNames), mob \in Prefixes(TopoMobiles) :
          \E start \in [Range(mob) -> Range(cl) \cup {None}] :
              SetUp(cl, mob, start, <<>>)
    /\ nextMove = 0 /\ nextRekey = 0 /\ nextSend = 0

\* The topology of the end-to-end scenario: one leader, three clusters,
\* the mobile nodes starting at cluster_1.
InitInject ==
    /\ SetUp(ClusterNames, TopoMobiles,
             [m \in Range(TopoMobiles) |-> ClusterNames[1]], <<>>)
    /\ nextMove = 0 /\ nextRekey = 0 /\ nextSend = 0

\* The monitor invoked by hand, d time units after the last invocation.
InvokeMove(bound, deltas) ==
    /\ invocations < bound
    /\ \E d \in deltas : MovementManager(now + d)
    /\ UNCHANGED timerVars

InjectMove(bound) == InvokeMove(bound, InjectDeltas)

\* One module instance on every node: instance i on the i-th node.
NodeAlloc == [i \in 1..Len(nodes) |-> nodes[i]]
\* Destination lists: every instance in node order, and in reverse order.
DstLists ==
    {[i \in 1..Len(nodes) |-> i], [i \in 1..Len(nodes) |-> Len(nodes) + 1 - i]}

\* The router asked for paths from any node to a list of instances, after
\* the set-up or after a monitor invocation (a call changes nothing the
\* next call reads, so two calls in a row reach nothing more).
RouteAny ==
    /\ lastOp # "route"
    /\ \E src \in Range(nodes), dsts \in DstLists : Route(src, NodeAlloc, dsts)
    /\ UNCHANGED <<now, timerVars>>

TopoMove == InjectMove(MaxTopoMoves)

NextTopo == TopoMove \/ RouteAny

SpecTopo == InitTopo /\ [][NextTopo]_vars

\* SpecDup: the monitor and the router on the full topology in which a
\* mobile node may be linked to two clusters: its start cluster first, the
\* extra one (when it is another cluster) added afterwards.
InitDup ==
    /\ \E start \in [Range(TopoMobiles) -> Range(ClusterNames)],
          extra \in [Range(TopoMobiles) -> Range(ClusterNames)] :
          LET twice == SelectSeq(TopoMobiles, LAMBDA m : extra[m] # start[m])
          IN  SetUpGraph(ClusterNames, TopoMobiles,
                         BuiltOrder(ClusterNames, TopoMobiles, start)
                            \o [i \in 1..Len(twice) |->
                                    {twice[i], extra[twice[i]]}],
                         <<>>)
    /\ nextMove = 0 /\ nextRekey = 0 /\ nextSend = 0

SpecDup == InitDup /\ [][NextTopo]_vars

ScenarioMove == InjectMove(MaxInject)

NextInject == ScenarioMove

SpecInject == InitInject /\ [][NextInject]_vars

\* SpecRekey: the two monitors invoked by hand on the scenario's topology.
RekeyMove == InjectMove(MaxRekeyMoves)

\* The rekeying monitor invoked by hand, d time units after the last
\* invocation, at most `bound` times.
InvokeRekey(bound, deltas) ==
    /\ Len(SelectSeq(simulation_log, LAMBDA r : r.type = "REKEY")) < bound
    /\ \E d \in deltas : RekeyingManager(now + d)
    /\ UNCHANGED timerVars

InjectRekey == InvokeRekey(MaxRekeys, InjectDeltas)

NextRekey == RekeyMove \/ InjectRekey

SpecRekey == InitInject /\ [][NextRekey]_vars

----------------------------------------------------------------------------
(* SpecRun: the deployment built by run_simulation, then the two monitors
   and the leader's broadcast invoked in any order *)

InitRun ==
    /\ SetUp(ClusterNames, <<>>, <<>>, <<>>)
    /\ nextMove = 0 /\ nextRekey = 0 /\ nextSend = 0

\* Time between two invocations: the MaxDeltas smallest of InjectDeltas.
RunDeltas ==
    {d \in InjectDeltas :
        Cardinality({e \in InjectDeltas : e <= d}) <= MaxDeltas}

\* The router asked for the paths of the leader's broadcast, after the
\* set-up or after a monitor invocation.
Broadcast ==
    /\ lastOp # "route"
    /\ Route(LeaderName, PlacementAlloc, PlacementDst)
    /\ UNCHANGED <<now, timerVars>>

RunMove == SetupDone /\ InvokeMove(MaxRunMoves, RunDeltas)
RunRekey == SetupDone /\ InvokeRekey(MaxRunRekeys, RunDeltas)
RunSend == SetupDone /\ Broadcast

NextRun == SetupMobile \/ RunMove \/ RunRekey \/ RunSend

SpecRun == InitRun /\ [][NextRun]_vars

----------------------------------------------------------------------------
(* SpecLog: the event log under every writer and reader. The run starts
   either as SpecRun does or from a topology with fewer than three
   clusters, on which the monitor also returns without moving a node. *)

FullDeployment == \A c \in Range(ClusterNames) : c \in Range(nodes)

InitLog == InitRun \/ (InitTopo /\ ~FullDeployment)

LogSetup == FullDeployment /\ SetupMobile
LogMove ==
    (FullDeployment => SetupDone) /\ InvokeMove(MaxLogMoves, RunDeltas)
LogRekey ==
    (FullDeployment => SetupDone) /\ InvokeRekey(MaxLogRekeys, RunDeltas)
LogSend == IF FullDeployment THEN SetupDone /\ Broadcast ELSE RouteAny

NextLog == LogSetup \/ LogMove \/ LogRekey \/ LogSend

SpecLog == InitLog /\ [][NextLog]_vars

----------------------------------------------------------------------------
(* SpecSteps: the run of SpecRun with MovementManager.__call__ taken one
   statement at a time. *)

\* Lines 83-98: initialize on first use, pick a node and a target. The
\* early returns end the invocation; otherwise the locals are kept for the
\* statements that follow.
StepBegin ==
    /\ SetupDone
    /\ MonitorIdle
    /\ invocations < MaxStepMoves
    /\ \E d \in RunDeltas :
        LET mob == IF NeedsInit THEN mobile_nodes \o DiscoverMobile
                   ELSE mobile_nodes
            clu == IF NeedsInit THEN cluster_nodes \o DiscoverCluster
                   ELSE cluster_nodes
            loc == IF NeedsInit THEN SeedLocations(node_locations)
                   ELSE node_locations
            Return == /\ pc' = "idle" /\ moving' = None /\ lastOp' = "noop"
        IN  /\ now' = now + d
            /\ invocations' = invocations + 1
            /\ initialized' = TRUE
            /\ mobile_nodes' = mob
            /\ cluster_nodes' = clu
            /\ node_locations' = loc
            /\ IF mob = <<>> THEN Return
               ELSE \E i \in 1..Len(mob) :
                      LET node == mob[i]
                          cur == LocationGet(loc, node)
                          poss == PossibleNewLocations(clu, cur)
                      IN  IF poss = <<>> THEN Return
                          ELSE \E j \in 1..Len(poss) :
                                 /\ moving' = [node |-> node, cur |-> cur,
                                               new |-> poss[j],
                                               time |-> now + d,
                                               status |-> None]
                                 /\ pc' = "picked"
                                 /\ lastOp' = "begin"
    /\ args' = None /\ ret' = None
    /\ UNCHANGED <<topoVars, move_counts, calls, simulation_log,
                   invalid_cache_value, timerVars>>

\* Line 100: status = self.ai_monitor.check_node_movement(node, now)
StepClassify ==
    /\ pc = "picked"
    /\ LET r == check_node_movement(move_counts, moving.node, moving.time)
       IN  /\ move_counts' = r.counts
           /\ calls' = Append(calls,
                              CallRecord(moving.node, moving.time, r.status))
           /\ moving' = [moving EXCEPT !.status = r.status]
    /\ pc' = "classified"
    /\ lastOp' = "classify"
    /\ UNCHANGED <<topoVars, mgrVars, simulation_log, invalid_cache_value,
                   now, timerVars, invocations, args, ret>>

\* Lines 103-110: simulation_log.append({... "type": "MOVE" ...})
StepLog ==
    /\ pc = "classified"
    /\ simulation_log' =
          LogAppend(simulation_log,
                    MoveRecord(moving.time, moving.node, moving.cur,
                               moving.new, moving.status))
    /\ pc' = "logged"
    /\ lastOp' = "log"
    /\ UNCHANGED <<topoVars, mgrVars, move_counts, calls,
                   invalid_cache_value, now, timerVars, invocations, args,
                   ret, moving>>

\* Lines 113-114: the edge to the current cluster is removed.
StepRemove ==
    /\ pc = "logged"
    /\ edges' = RemoveOldEdge(edges, moving.node, moving.cur)
    /\ edge_order' = OrderAfterRemove(edge_order, moving.node, moving.cur)
    /\ pc' = "removed"
    /\ lastOp' = "remove"
    /\ UNCHANGED <<nodes, ntype, edges0, mgrVars, move_counts, calls,
                   simulation_log, invalid_cache_value, now, timerVars,
                   invocations, args, ret, moving>>

\* Line 115: the edge to the new cluster is added.
StepAdd ==
    /\ pc = "removed"
    /\ edges' = AddNewEdge(edges, moving.node, moving.new)
    /\ edge_order' = OrderAfterAdd(edge_order, moving.node, moving.new)
    /\ pc' = "added"
    /\ lastOp' = "add"
    /\ UNCHANGED <<nodes, ntype, edges0, mgrVars, move_counts, calls,
                   simulation_log, invalid_cache_value, now, timerVars,
                   invocations, args, ret, moving>>

\* Line 116: self.node_locations[node_to_move] = new_location_id
StepLocate ==
    /\ pc = "added"
    /\ node_locations' =
          LocationsAfterMove(node_locations, moving.node, moving.new)
    /\ pc' = "located"
    /\ lastOp' = "locate"
    /\ UNCHANGED <<topoVars, mobile_nodes, cluster_nodes, initialized,
                   move_counts, calls, simulation_log, invalid_cache_value,
                   now, timerVars, invocations, args, ret, moving>>

\* Line 119 and the return: the cache is marked invalid and the call
\* returns.
StepInvalidate ==
    /\ pc = "located"
    /\ invalid_cache_value' = CacheAfterMove(invalid_cache_value)
    /\ pc' = "idle"
    /\ moving' = None
    /\ lastOp' = "move"
    /\ UNCHANGED <<topoVars, mgrVars, move_counts, calls, simulation_log,
                   now, timerVars, invocations, args, ret>>

\* The other components run between two monitor calls: the rekeying
\* monitor and the broadcast are plain calls of the same thread, made when
\* the call before them has returned.
StepRekey ==
    SetupDone /\ MonitorIdle /\ InvokeRekey(MaxStepRekeys, RunDeltas)
StepSend == SetupDone /\ MonitorIdle /\ Broadcast

NextSteps ==
    \/ SetupMobile
    \/ StepBegin \/ StepClassify \/ StepLog \/ StepRemove \/ StepAdd
    \/ StepLocate \/ StepInvalidate
    \/ StepRekey
    \/ StepSend

SpecSteps == InitRun /\ [][NextSteps]_vars

----------------------------------------------------------------------------
(* Claims *)

\* The calls for the node of call i, up to and including call i, whose time
\* lies in the trailing window ending at call i's time.
CallsInWindow(i) ==
    {j \in 1..i : /\ calls[j].node = calls[i].node
                  /\ calls[i].time - calls[j].time < 300}

\* C1: with non-decreasing call times, a check_node_movement call for node n
\* at time t returns ATTACKER exactly when more than 3 of the calls made so
\* far for n lie in the window t - t' < 300 (a call exactly 300 old is
\* outside), and NORMAL otherwise; calls for other nodes do not count.
C1_WindowVerdict ==
    /\ \A i \in 1..Len(calls) :
          calls[i].status =
              IF Cardinality(CallsInWindow(i)) > 3 THEN "ATTACKER" ELSE "NORMAL"
    /\ lastOp = "check" => ret = calls[Len(calls)].status

\* A fourth call for a node is NORMAL because an earlier one is exactly 300
\* old, with a call for another node in between.
C1_Witness ==
    /\ lastOp = "check"
    /\ \E i \in 1..Len(calls) :
          /\ calls[i].status = "NORMAL"
          /\ Cardinality({j \in 1..i : calls[j].node = calls[i].node}) > 3
          /\ \E j \in 1..i : /\ calls[j].node = calls[i].node
                             /\ calls[i].time - calls[j].time = 300
          /\ \E k \in 1..i : calls[k].node # calls[i].node

\* The MOVE records of the log, in log order.
MoveLog == SelectSeq(simulation_log, LAMBDA r : r.type = "MOVE")

\* The MOVE records for the node of MOVE record i, up to and including it,
\* whose time lies in the trailing window ending at record i's time.
MovesInWindow(i) ==
    {j \in 1..i : /\ MoveLog[j].node = MoveLog[i].node
                  /\ MoveLog[i].time - MoveLog[j].time < 300}

\* The MOVE records of node n, in log order.
MovesOf(n) == SelectSeq(MoveLog, LAMBDA r : r.node = n)

\* C9: the classifier is called exactly once per logged MOVE, with the
\* record's node and time, and the record carries its verdict: a MOVE record
\* is ATTACKER exactly when more than 3 MOVE records of its node (itself
\* included) lie in the window t - t' < 300; four moves of one node at
\* 10, 20, 30, 40 are NORMAL, NORMAL, NORMAL, ATTACKER.
C9_MoveStatusIsVerdict ==
    /\ Len(calls) = Len(MoveLog)
    /\ \A i \in 1..Len(MoveLog) :
          /\ calls[i] = CallRecord(MoveLog[i].node, MoveLog[i].time,
                                   MoveLog[i].status)
          /\ MoveLog[i].status =
                IF Cardinality(MovesInWindow(i)) > 3 THEN "ATTACKER" ELSE "NORMAL"
    /\ \A n \in Range(nodes) :
          LET ms == MovesOf(n)
          IN  (Len(ms) >= 4 /\ [i \in 1..4 |-> ms[i].time] = <<10, 20, 30, 40>>)
                  => [i \in 1..4 |-> ms[i].status]
                         = <<"NORMAL", "NORMAL", "NORMAL", "ATTACKER">>

\* The scenario: one node moved at 10, 20, 30 and 40, the fourth move
\* logged as ATTACKER.
C9_Witness ==
    /\ lastOp = "move"
    /\ Len(MoveLog) = 4
    /\ [i \in 1..4 |-> MoveLog[i].time] = <<10, 20, 30, 40>>
    /\ \A i \in 1..4 : MoveLog[i].node = MoveLog[1].node
    /\ MoveLog[4].status = "ATTACKER"

\* The last record of the log.
LastRecord == simulation_log[Len(simulation_log)]

\* C2: after an invocation that performs a move, the moved node has exactly
\* one edge to a CLUSTER node, and it is the edge to the cluster named in
\* the MOVE record's `to` field.
C2_OneAttachmentAfterMove ==
    lastOp = "move" =>
        /\ LastRecord.type = "MOVE"
        /\ LastRecord.time = now
        /\ ClusterNeighbors(edges, LastRecord.node) = {LastRecord.to}

\* A node that was attached to a cluster has been moved away from it.
C2_Witness ==
    /\ lastOp = "move"
    /\ LastRecord.from # None
    /\ {LastRecord.node, LastRecord.from} \in edges0
    /\ {LastRecord.node, LastRecord.from} \notin edges

\* C3: once the monitor has initialized, for every MOBILE node the set of
\* its CLUSTER neighbours is the singleton of its Location Map entry.
C3_LocationMapAgrees ==
    initialized =>
        \A m \in {n \in Range(nodes) : ntype[n] = "MOBILE"} :
            /\ m \in DOMAIN node_locations
            /\ ClusterNeighbors(edges, m) = {node_locations[m]}

\* After moves, a rekeying and a router call: one mobile node has moved
\* twice, another has never moved.
C3_Witness ==
    /\ initialized
    /\ lastOp = "route"
    /\ \E i \in 1..Len(simulation_log) : simulation_log[i].type = "REKEY"
    /\ \E m \in Range(mobile_nodes) : Len(MovesOf(m)) >= 2
    /\ \E m \in Range(mobile_nodes) : Len(MovesOf(m)) = 0

\* The consecutive pairs of nodes of a path.
Hops(path) == {{path[k], path[k + 1]} : k \in 1..(Len(path) - 1)}

\* C4: every path a router call returns uses only edges present in the
\* graph at the time of the call; none of its hops is an attachment edge
\* that a move has removed.
C4_PathsUseCurrentEdges ==
    lastOp = "route" =>
        \A i \in 1..Len(ret.paths) : Hops(ret.paths[i]) \subseteq edges

\* A router call after a move: an attachment edge was removed, and a
\* returned path runs over the attachment edge the move added.
C4_Witness ==
    /\ lastOp = "route"
    /\ edges0 \ edges # {}
    /\ \E i \in 1..Len(ret.paths) : Hops(ret.paths[i]) \ edges0 # {}

\* C5: the two sequences a router call returns have equal length, and
\* paths[i] starts at the source and ends at the node of instance
\* dst_idDES[i].
C5_IndexCorrespondence ==
    lastOp = "route" =>
        /\ Len(ret.paths) = Len(ret.dst_idDES)
        /\ \A i \in 1..Len(ret.paths) :
              LET path == ret.paths[i]
              IN  /\ Len(path) >= 1
                  /\ path[1] = args.src
                  /\ i <= Len(ret.dst_idDES)
                  /\ path[Len(path)] = args.alloc_DES[ret.dst_idDES[i]]

\* A router call after a move that returned at least two paths and left a
\* destination out.
C5_Witness ==
    /\ lastOp = "route"
    /\ edges # edges0
    /\ Len(ret.paths) >= 2
    /\ Len(ret.paths) < Len(args.DES_dst_list)
    /\ \E i \in 1..Len(ret.paths) : Len(ret.paths[i]) >= 3

\* The nodes connected to a node of S in the graph with edges E.
RECURSIVE Component(_, _)
Component(E, S) ==
    LET T == S \cup UNION {Neighbors(E, n) : n \in S}
    IN  IF T = S THEN S ELSE Component(E, T)

\* The instances of a destination list whose node is connected to src.
ReachableInstances(E, src, alloc_DES, DES_dst_list) ==
    SelectSeq(DES_dst_list, LAMBDA d : alloc_DES[d] \in Component(E, {src}))

\* C6: a router call does not fail on an unreachable destination: the
\* returned instance ids are exactly the destination instances whose node
\* is reachable from the source, in the order of the input list, with one
\* path each.
C6_UnreachableOmitted ==
    lastOp = "route" =>
        /\ ret.dst_idDES = ReachableInstances(edges, args.src, args.alloc_DES,
                                              args.DES_dst_list)
        /\ Len(ret.paths) = Len(ret.dst_idDES)

\* After a move, an unreachable instance stands between two reachable ones
\* in the input list.
C6_Witness ==
    /\ lastOp = "route"
    /\ edges # edges0
    /\ \E i, j, k \in 1..Len(args.DES_dst_list) :
          LET comp == Component(edges, {args.src})
              at(x) == args.alloc_DES[args.DES_dst_list[x]]
          IN  /\ i < j /\ j < k
              /\ at(i) \in comp /\ at(j) \notin comp /\ at(k) \in comp
              /\ at(i) # args.src /\ at(k) # args.src

\* The step is a MovementManager invocation.
ManagerStep == lastOp' \in {"move", "noop"}

\* The step appends no record, leaves the graph alone, does not call the
\* classifier and leaves the cache flag as it was.
ManagerFrame ==
    /\ simulation_log' = simulation_log
    /\ nodes' = nodes /\ ntype' = ntype /\ edges' = edges
    /\ edge_order' = edge_order
    /\ move_counts' = move_counts /\ calls' = calls
    /\ invalid_cache_value' = invalid_cache_value

NoMobileNodes == \A n \in Range(nodes) : ntype[n] # "MOBILE"

\* C7: on a topology with no MOBILE nodes every MovementManager invocation,
\* the first and the repeated ones, is a no-op: no record, no change of the
\* graph, no classifier call, no change of the cache flag.
C7_NoMobileNoop ==
    [][(ManagerStep /\ NoMobileNodes) => (lastOp' = "noop" /\ ManagerFrame)]_vars

\* The monitor was invoked twice on a topology of clusters without mobile
\* nodes.
C7_Witness ==
    /\ NoMobileNodes
    /\ lastOp = "noop"
    /\ invocations >= 2
    /\ Len(cluster_nodes) >= 2
    /\ simulation_log = <<>>

ClusterSet == {n \in Range(nodes) : ntype[n] = "CLUSTER"}
MobileSet == {n \in Range(nodes) : ntype[n] = "MOBILE"}

\* C8 as stated: with fewer than two CLUSTER nodes every MovementManager
\* invocation is a no-op, whichever mobile node it picks, also one with no
\* recorded cluster attachment.
C8_FewClustersAlwaysNoop ==
    [][(ManagerStep /\ Cardinality(ClusterSet) < 2)
          => (lastOp' = "noop" /\ ManagerFrame)]_vars

\* The step attaches a mobile node that had no cluster attachment to the
\* only cluster, logging a MOVE record with `from` None.
AttachesUnattached ==
    /\ lastOp' = "move"
    /\ \E m \in MobileSet, c \in ClusterSet :
          /\ ClusterNeighbors(edges, m) = {}
          /\ ClusterSet = {c}
          /\ simulation_log' =
                Append(simulation_log,
                       MoveRecord(now', m, None, c, calls'[Len(calls')].status))
          /\ edges' = edges \cup {{m, c}}
          /\ node_locations'[m] = c
          /\ invalid_cache_value'

\* C8 amended: with fewer than two CLUSTER nodes an invocation is a no-op
\* when there is no cluster or the picked mobile node is attached to the
\* only cluster; a picked mobile node without a cluster attachment is moved
\* to the only cluster.
C8_FewClustersNoopUnlessUnattached ==
    [][(ManagerStep /\ Cardinality(ClusterSet) < 2) =>
          /\ (lastOp' = "noop" /\ ManagerFrame) \/ AttachesUnattached
          /\ (ClusterSet = {} \/ \A m \in MobileSet : ClusterNeighbors(edges, m) # {})
                => (lastOp' = "noop" /\ ManagerFrame)
          /\ (ClusterSet # {} /\ MobileSet # {}
                /\ \A m \in MobileSet : ClusterNeighbors(edges, m) = {})
                => AttachesUnattached]_vars

\* One cluster, two invocations: one picked the attached node and did
\* nothing, the other picked the unattached node and attached it.
C8_Witness ==
    /\ Cardinality(ClusterSet) = 1
    /\ invocations = 2
    /\ lastOp = "move"
    /\ Len(simulation_log) = 1
    /\ LastRecord.from = None

\* C10: a RekeyingManager invocation appends exactly one REKEY record, with
\* the current time, a seed of eight letters and digits and the key derived
\* from the record's own seed: eight hexadecimal digits, the ones hashlib
\* gives for that seed (equal seeds in the log carry equal keys). It
\* changes neither the graph, the Location Map, the Movement History nor
\* the cache flag.
C10_RekeyAppendsOnly ==
    [][lastOp' = "rekey" =>
          /\ Len(simulation_log') = Len(simulation_log) + 1
          /\ SubSeq(simulation_log', 1, Len(simulation_log)) = simulation_log
          /\ LET r == simulation_log'[Len(simulation_log')]
             IN  /\ r.type = "REKEY"
                 /\ r.time = now'
                 /\ DOMAIN r = {"time", "type", "seed", "key"}
                 /\ r.seed \in Seeds
                 /\ Len(r.key) = 8
                 /\ \A i \in 1..Len(r.key) :
                       \E j \in 1..16 :
                          SubSeq(r.key, i, i)
                             = SubSeq("0123456789abcdef", j, j)
                 /\ \E p \in {<<"FlO01XS8", "b2b87f19">>,
                               <<"zyzKdOAR", "94977446">>,
                               <<"0UAqFzWs", "0a0ed255">>,
                               <<"Xo0mRmPL", "fdeb16e6">>} :
                       r.seed = p[1] /\ r.key = p[2]
                 /\ \A i \in 1..Len(simulation_log) :
                       (/\ simulation_log[i].type = "REKEY"
                        /\ simulation_log[i].seed = r.seed)
                           => simulation_log[i].key = r.key
          /\ nodes' = nodes /\ ntype' = ntype /\ edges' = edges
          /\ edge_order' = edge_order
          /\ node_locations' = node_locations
          /\ mobile_nodes' = mobile_nodes /\ cluster_nodes' = cluster_nodes
          /\ move_counts' = move_counts
          /\ invalid_cache_value' = invalid_cache_value]_vars

\* A second rekeying after a move: the log holds two REKEY records with
\* the same seed.
C10_Witness ==
    /\ lastOp = "rekey"
    /\ Len(MoveLog) >= 1
    /\ invalid_cache_value
    /\ \E i, j \in 1..Len(simulation_log) :
          /\ i < j
          /\ simulation_log[i].type = "REKEY"
          /\ simulation_log[j].type = "REKEY"
          /\ simulation_log[i].seed = simulation_log[j].seed

\* ------------------------------------------------------------------
\* visualization_dashboard.py: the replay of the event log.

\* update(frame): an INITIAL record places its node at the record's location
\* with status NORMAL, a MOVE record places it at the record's `to` with
\* the record's status, a REKEY record leaves the assignments alone.
update(assignments, event) ==
    IF event.type = "INITIAL"
    THEN [m \in DOMAIN assignments \cup {event.node} |->
             IF m = event.node
             THEN [location |-> event.location, status |-> "NORMAL"]
             ELSE assignments[m]]
    ELSE IF event.type = "MOVE"
    THEN [m \in DOMAIN assignments \cup {event.node} |->
             IF m = event.node
             THEN [location |-> event.to, status |-> event.status]
             ELSE assignments[m]]
    ELSE assignments

\* member_node_assignments after the frames 1..k of one pass of the
\* animation, in index order, the pass begun with the assignments `start`.
RECURSIVE Replay(_, _, _)
Replay(start, events, k) ==
    IF k = 0 THEN start
    ELSE update(Replay(start, events, k - 1), events[k])

\* FuncAnimation(frames=len(events), repeat=True): the first pass begins
\* with the empty dictionary, every later pass with what the pass before
\* it left (nothing clears member_node_assignments).
FirstPass(events, k) == Replay(<<>>, events, k)
LaterPass(left, events, k) == Replay(left, events, k)

\* ------------------------------------------------------------------
\* C11: the event log is append-only. Across set-up, mobility, rekeying
\* and router steps the log before a step is a prefix of the log after it:
\* no record is removed, reordered or modified; a set-up round, a move and
\* a rekeying append exactly one record, a router call and a no-op
\* invocation leave the log as it was.
C11_LogAppendOnly ==
    [][/\ Len(simulation_log) <= Len(simulation_log')
       /\ \A i \in 1..Len(simulation_log) :
             simulation_log'[i] = simulation_log[i]
       /\ lastOp' \in {"route", "noop"} => simulation_log' = simulation_log
       /\ lastOp' \in {"setup", "move", "rekey"} =>
             Len(simulation_log') = Len(simulation_log) + 1]_vars

\* A monitor invocation that returned without moving a node, made when
\* the log already held a MOVE and a REKEY record.
C11_Witness ==
    /\ lastOp = "noop"
    /\ \E j, k \in 1..Len(simulation_log) :
          /\ simulation_log[j].type = "MOVE"
          /\ simulation_log[k].type = "REKEY"

C13_ReplayReconstructsPlacement ==
    \A a \in {FirstPass(simulation_log, Len(simulation_log))} :
    \A b \in {LaterPass(a, simulation_log, Len(simulation_log))} :
       /\ \A m \in Range(nodes) :
             ntype[m] = "MOBILE" =>
                /\ m \in DOMAIN a
                /\ ClusterNeighbors(edges, m) = {a[m].location}
                /\ b[m].location = a[m].location
       /\ \A i \in 1..Len(simulation_log) :
             simulation_log[i].type = "MOVE" =>
                \A before \in {FirstPass(simulation_log, i - 1)},
                   again \in {LaterPass(a, simulation_log, i - 1)} :
                   /\ \E j \in 1..(i - 1) :
                         /\ simulation_log[j].type = "INITIAL"
                         /\ simulation_log[j].node = simulation_log[i].node
                   /\ simulation_log[i].node \in DOMAIN before
                   /\ simulation_log[i].from
                         = before[simulation_log[i].node].location
                   /\ simulation_log[i].from
                         = again[simulation_log[i].node].location

\* A node moved twice (its second `from` is the first `to`) while another
\* node still sits where its INITIAL record put it.
C13_Witness ==
    /\ lastOp = "move"
    /\ \E i, j \in 1..Len(simulation_log) :
          /\ i < j
          /\ simulation_log[i].type = "MOVE"
          /\ simulation_log[j].type = "MOVE"
          /\ simulation_log[i].node = simulation_log[j].node
          /\ simulation_log[j].from = simulation_log[i].to
    /\ \E m \in Range(MobileNames) : m \notin {r.node : r \in Range(MoveLog)}

\* ------------------------------------------------------------------
\* C16: every MovementManager invocation that changes the edge set leaves
\* routing.invalid_cache_value set when it returns, and every move changes
\* the edge set; an invocation that does not change the edge set leaves the
\* flag as it was; so every router call made after a move finds the flag
\* set, and leaves it as it is.
C16_EdgeChangeInvalidatesCache ==
    [][/\ ManagerStep =>
             /\ edges' # edges => invalid_cache_value'
             /\ edges' = edges => invalid_cache_value' = invalid_cache_value
             /\ lastOp' = "move" => edges' # edges
       /\ lastOp' = "route" =>
             /\ MoveLog # <<>> => invalid_cache_value
             /\ invalid_cache_value' = invalid_cache_value]_vars

\* A router call after two moves that brought the edge set back to the one
\* of the set-up: the flag is still set.
C16_Witness ==
    /\ lastOp = "route"
    /\ Len(MoveLog) = 2
    /\ edges = edges0
    /\ invalid_cache_value

\* ------------------------------------------------------------------
\* C17: the monitor becomes READY on its first invocation and stays READY.
\* The first invocation discovers the nodes, seeds the Location Map from
\* the attachment edges it finds, and attempts a move in the same
\* invocation; later invocations do not discover again, so the lists hold
\* each MOBILE and each CLUSTER node of the topology exactly once, and no
\* other step touches the flag or the lists.
C17_InitializesOnce ==
    [][/\ initialized <=> invocations >= 1
       /\ initialized' <=> invocations' >= 1
       /\ initialized => initialized'
       /\ ManagerStep =>
             /\ invocations' = invocations + 1
             /\ initialized'
             /\ Range(mobile_nodes') = MobileSet
             /\ Len(mobile_nodes') = Cardinality(MobileSet)
             /\ Range(cluster_nodes') = ClusterSet
             /\ Len(cluster_nodes') = Cardinality(ClusterSet)
             /\ initialized =>
                   /\ mobile_nodes' = mobile_nodes
                   /\ cluster_nodes' = cluster_nodes
             /\ ~initialized =>
                   /\ mobile_nodes = <<>> /\ cluster_nodes = <<>>
                   /\ (MobileSet # {} /\ Cardinality(ClusterSet) >= 2)
                         => lastOp' = "move"
                   /\ \A m \in MobileSet :
                         LET seed == IF ClusterNeighbors(edges, m) = {}
                                     THEN None
                                     ELSE CHOOSE c \in ClusterNeighbors(edges, m)
                                              : TRUE
                         IN  IF lastOp' = "move"
                                /\ simulation_log'[Len(simulation_log')].node = m
                             THEN simulation_log'[Len(simulation_log')].from
                                     = seed
                             ELSE LocationGet(node_locations', m) = seed
       /\ ~ManagerStep =>
             /\ initialized' = initialized
             /\ mobile_nodes' = mobile_nodes
             /\ cluster_nodes' = cluster_nodes]_vars

\* A second invocation has returned on a topology with two mobile nodes and
\* three clusters, one of the mobile nodes attached to no cluster when the
\* monitor was initialized.
C17_Witness ==
    /\ invocations = 2
    /\ initialized
    /\ Len(mobile_nodes) = 2
    /\ Len(cluster_nodes) = 3
    /\ \E m \in MobileSet : ClusterNeighbors(edges0, m) = {}

\* ------------------------------------------------------------------
\* C18: every move goes to a different cluster. In every MOVE record `to`
\* is a CLUSTER node of the topology and differs from `from`, and the
\* invocation that logs it finds no edge between the node and `to`: no
\* invocation re-attaches a mobile node to the cluster it is attached to.
C18_MoveChangesCluster ==
    [][lastOp' = "move" =>
          /\ \A i \in 1..Len(simulation_log') :
                simulation_log'[i].type = "MOVE" =>
                   /\ simulation_log'[i].to \in ClusterSet
                   /\ simulation_log'[i].to # simulation_log'[i].from
          /\ LET r == simulation_log'[Len(simulation_log')]
             IN  /\ r.type = "MOVE"
                 /\ r.node \in MobileSet
                 /\ {r.node, r.to} \notin edges
                 /\ ClusterNeighbors(edges', r.node) = {r.to}]_vars

\* A node was moved from one cluster to another and then back.
C18_Witness ==
    /\ lastOp = "move"
    /\ Len(MoveLog) = 2
    /\ MoveLog[1].node = MoveLog[2].node
    /\ MoveLog[1].from = MoveLog[2].to
    /\ MoveLog[1].to = MoveLog[2].from

\* ------------------------------------------------------------------
\* The node named in the record the step appends.
MovedNode == simulation_log'[Len(simulation_log')].node

\* The part of the move's frame that concerns the log, the graph and the
\* Movement History: exactly one MOVE record appended; at most one edge
\* removed and exactly one added, both incident to the moved node; node
\* set and node types, the edges among LEADER and CLUSTER nodes, the edges
\* of every other mobile node and the history of every other node
\* unchanged.
MoveFrameOfGraph ==
    /\ Len(simulation_log') = Len(simulation_log) + 1
    /\ SubSeq(simulation_log', 1, Len(simulation_log)) = simulation_log
    /\ simulation_log'[Len(simulation_log')].type = "MOVE"
    /\ MovedNode \in MobileSet
    /\ Cardinality(edges \ edges') <= 1
    /\ Cardinality(edges' \ edges) = 1
    /\ \A e \in (edges \ edges') \cup (edges' \ edges) : MovedNode \in e
    /\ nodes' = nodes /\ ntype' = ntype
    /\ \A e \in edges \cup edges' :
          (\A n \in e : ntype[n] # "MOBILE") => e \in edges /\ e \in edges'
    /\ \A m \in MobileSet \ {MovedNode} :
          Neighbors(edges', m) = Neighbors(edges, m)
    /\ \A n \in Range(nodes) \ {MovedNode} :
          /\ n \in DOMAIN move_counts' <=> n \in DOMAIN move_counts
          /\ HistoryOf(move_counts', n) = HistoryOf(move_counts, n)

\* C19 as stated: an invocation that performs a move keeps, besides the
\* frame above, the Location Map entry of every other mobile node as it
\* was before the invocation. Violated by the first invocation, which
\* creates those entries.
C19_MoveFrameAsStated ==
    [][lastOp' = "move" =>
          /\ MoveFrameOfGraph
          /\ \A m \in MobileSet \ {MovedNode} :
                LocationGet(node_locations', m)
                   = LocationGet(node_locations, m)]_vars

\* C19 amended: an invocation that performs a move changes only the moved
\* node's attachment (the frame above), and the Location Map entry of
\* every other mobile node is unchanged, except that the first invocation
\* creates it from the node's attachment edge.
C19_MoveFrame ==
    [][lastOp' = "move" =>
          /\ MoveFrameOfGraph
          /\ \A m \in MobileSet \ {MovedNode} :
                LocationGet(node_locations', m)
                   = IF initialized THEN LocationGet(node_locations, m)
                     ELSE IF ClusterNeighbors(edges, m) = {} THEN None
                     ELSE CHOOSE c \in ClusterNeighbors(edges, m) : TRUE]_vars

\* The second invocation moved one node while the other node keeps the
\* entry, the edge and the history the first invocation left it.
C19_Witness ==
    /\ lastOp = "move"
    /\ invocations = 2
    /\ Len(MoveLog) = 2
    /\ MoveLog[1].node # MoveLog[2].node
    /\ MoveLog[1].from # None
    /\ MoveLog[2].from # None

\* ------------------------------------------------------------------
\* C20: in the deployment of run_simulation (AreaLeader on area_leader,
\* ClusterLeader on cluster_1, cluster_2, cluster_3) a broadcast from
\* area_leader, after any sequence of moves, drops no destination:
\* get_path returns three paths, one per ClusterLeader instance in
\* placement order, each the one-hop path from area_leader to the cluster.
C20_BroadcastReachesEveryCluster ==
    lastOp = "route" =>
       /\ args.src = LeaderName
       /\ args.DES_dst_list = <<1, 2, 3>>
       /\ ret.dst_idDES = <<1, 2, 3>>
       /\ ret.paths = [i \in 1..3 |-> <<LeaderName, ClusterNames[i]>>]
       /\ \A i \in 1..3 : PlacementAlloc[ret.dst_idDES[i]] = ClusterNames[i]

\* A broadcast after two moves, when some cluster has lost every mobile
\* node it had.
C20_Witness ==
    /\ lastOp = "route"
    /\ Len(MoveLog) = 2
    /\ Len(ret.paths) = 3
    /\ \E c \in Range(ClusterNames) :
          /\ Neighbors(edges0, c) # {LeaderName}
          /\ Neighbors(edges, c) = {LeaderName}

\* ------------------------------------------------------------------
\* The four signs of a move in progress are absent: every logged MOVE of a
\* node is reflected in the graph (the node's last MOVE record names the
\* cluster it is attached to), every mobile node has exactly one
\* attachment edge, the Location Map of an initialized monitor agrees with
\* the graph, and the cache is marked invalid once the edge set has been
\* changed.
NoMoveInProgress ==
    /\ \A i \in 1..Len(simulation_log) :
          (/\ simulation_log[i].type = "MOVE"
           /\ \A j \in (i + 1)..Len(simulation_log) :
                 ~(/\ simulation_log[j].type = "MOVE"
                   /\ simulation_log[j].node = simulation_log[i].node))
             => {simulation_log[i].node, simulation_log[i].to} \in edges
    /\ \A m \in MobileSet : Cardinality(ClusterNeighbors(edges, m)) = 1
    /\ initialized =>
          \A m \in MobileSet :
             ClusterNeighbors(edges, m) = {LocationGet(node_locations, m)}
    /\ (edges # edges0 \/ MoveLog # <<>>) => invalid_cache_value

\* C14: a move is atomic with respect to every other component. Every
\* router call, every rekeying invocation and every start of a
\* MovementManager invocation, each made when the call before it has
\* returned, finds none of the intermediate states of a move: every MOVE
\* record that is the last of its node has its edge in the graph, every
\* mobile node has exactly one attachment edge, the Location Map agrees
\* with the graph, and the cache is marked once the edge set has changed.
C14_MoveIsAtomic ==
    [][lastOp' \in {"route", "rekey", "begin", "noop"} =>
          NoMoveInProgress]_vars

\* A second monitor invocation began after a completed move and a
\* rekeying that followed it.
C14_Witness ==
    /\ lastOp = "begin"
    /\ pc = "picked"
    /\ invocations = 2
    /\ Len(MoveLog) = 1
    /\ simulation_log[Len(simulation_log)].type = "REKEY"
    /\ simulation_log[Len(simulation_log) - 1].type = "MOVE"

\* ------------------------------------------------------------------
\* C15 as stated: when a move would add an attachment edge between the
\* moving node and the chosen target cluster and the graph already has an
\* edge between the two, the invocation fails fast and aborts the run; it
\* does not go on with the move. Violated: the step that logs such a MOVE
\* record returns as a completed move.
C15_DuplicateEdgeAborts ==
    [][(/\ Len(simulation_log') = Len(simulation_log) + 1
        /\ simulation_log'[Len(simulation_log')].type = "MOVE"
        /\ {simulation_log'[Len(simulation_log')].node,
            simulation_log'[Len(simulation_log')].to} \in edges)
          => /\ lastOp' = "abort"
             /\ edges' = edges
             /\ node_locations' = node_locations
             /\ invalid_cache_value' = invalid_cache_value]_vars

\* A move onto a cluster the node was already linked to has gone through:
\* the record is logged, the other edge is removed, the Location Map and
\* the cache flag are updated.
C15_Witness ==
    /\ lastOp = "move"
    /\ invocations = 1
    /\ {LastRecord.node, LastRecord.to} \in edges0
    /\ {LastRecord.node, LastRecord.from} \in edges0
    /\ edges = edges0 \ {{LastRecord.node, LastRecord.from}}
    /\ node_locations[LastRecord.node] = LastRecord.to
    /\ invalid_cache_value

====
